---- MODULE Spec2Model ----
(***************************************************************************)
(* Model of EditSuite's VideoSplitterWorker (src/EditSuite.py): the        *)
(* duration probe with its fallback, the segment loop of run(), the        *)
(* per-segment encode, cooperative cancellation through stop() and the     *)
(* signals the worker emits (Spec, FairSpec); the same job run twice over  *)
(* one directory (RerunSpec); the two time conversions on their own        *)
(* (RoundTripSpec); and the main window VideoCutterGUI with the workers    *)
(* it creates (GuiSpec).                                                   *)
(*                                                                         *)
(* Time values that Python holds as floats (the probed duration, window    *)
(* ends, window lengths) are integers counted in 1/Scale of a second;      *)
(* segment_duration is an integer number of seconds as in the source.      *)
(* Text is a sequence of one-character strings; the marker 'Duration:' is  *)
(* one lexeme of a diagnostic line.                                        *)
(***************************************************************************)
EXTENDS Integers, Sequences, FiniteSets, TLC

(* ---------------------------- bounds ----------------------------------- *)

\* resolution of fractional seconds: Scale units per second
Scale == 10

\* largest value of the minutes spin box that is explored
MaxMinutes == 1

\* largest value of the seconds spin box that is explored
MaxSeconds == 3

\* ffprobe reports durations of 0, 0.5, 1.0, ... MaxHalfSeconds/2 seconds
MaxHalfSeconds == 13

\* runs with more than MaxSegments loop iterations are not explored
MaxSegments == 4

\* longest diagnostic output (in lines) of the fallback pass
MaxLines == 2

\* the window creates at most MaxWorkers workers
MaxWorkers == 2

\* the conversions are applied to 0 .. MaxWholeSeconds seconds past each
\* of the hour offsets
MaxWholeSeconds == 3725

\* longest zero fraction appended to a formatted time
MaxFractionDigits == 3

\* jobs of more than MaxRerunSegments loop iterations are not run again
MaxRerunSegments == 2

(* ------------------------ program constants ---------------------------- *)

\* self.minutes_spin.setValue(2)
DefaultMinutes == 2

\* self.seconds_spin.setValue(20)
DefaultSeconds == 20

(* ------------------------- text primitives ----------------------------- *)

Digits == <<"0", "1", "2", "3", "4", "5", "6", "7", "8", "9">>

DigitChar(n) == Digits[n + 1]

IsDigit(c) == \E d \in 0..9 : Digits[d + 1] = c

DigitVal(c) == CHOOSE d \in 0..9 : Digits[d + 1] = c

\* str(n) / the digits of format(n, "d") for n >= 0
RECURSIVE Str(_)
Str(n) == IF n < 10 THEN <<DigitChar(n)>>
          ELSE Str(n \div 10) \o <<DigitChar(n % 10)>>

\* f"{n:02d}": at least two digits, zero padded
Format02d(n) == IF n < 10 THEN <<"0">> \o Str(n) ELSE Str(n)

\* s.split(sep) for a one-lexeme separator: the pieces between the
\* occurrences of sep, one more piece than there are occurrences
Split(s, sep) ==
    LET at == {k \in 1..Len(s) : s[k] = sep}
        n  == Cardinality(at)
        \* where the j-th occurrence is; 0 and Len(s) + 1 fence the ends
        pos(j) == IF j = 0 THEN 0
                  ELSE IF j = n + 1 THEN Len(s) + 1
                  ELSE CHOOSE k \in at : Cardinality({h \in at : h <= k}) = j
    IN  [j \in 1..(n + 1) |-> SubSeq(s, pos(j - 1) + 1, pos(j) - 1)]

\* s.strip(): drop leading and trailing blanks
Strip(s) ==
    LET ink == {k \in 1..Len(s) : s[k] # " "}
    IN  IF ink = {} THEN <<>>
        ELSE SubSeq(s, CHOOSE k \in ink : \A h \in ink : k <= h,
                       CHOOSE k \in ink : \A h \in ink : k >= h)

AllDigits(s) == \A k \in 1..Len(s) : IsDigit(s[k])

\* value of the first n digits of a digit string
RECURSIVE DigitsValUpTo(_, _)
DigitsValUpTo(s, n) == IF n = 0 THEN 0
                       ELSE DigitsValUpTo(s, n - 1) * 10 + DigitVal(s[n])

\* value of a digit string
DigitsVal(s) == DigitsValUpTo(s, Len(s))

\* int(s) succeeds: a non-empty digit string
IntOk(s) == s # <<>> /\ AllDigits(s)

\* float(s) succeeds: digits, at most one '.', at least one digit
FloatOk(s) ==
    LET p == Split(s, ".")
    IN  /\ Len(p) \in {1, 2}
        /\ \A k \in 1..Len(p) : AllDigits(p[k])
        /\ \E k \in 1..Len(p) : p[k] # <<>>

\* float(s) in 1/Scale seconds; the first fractional digit is the tenths
\* (the texts explored carry no further non-zero fractional digit)
FloatVal(s) ==
    LET p == Split(s, ".")
    IN  DigitsVal(p[1]) * Scale
          + (IF Len(p) = 2 /\ p[2] # <<>>
             THEN (DigitVal(p[2][1]) * Scale) \div 10 ELSE 0)

(* ----------------------- time conversions ------------------------------ *)

\* time_to_seconds: 'HH:MM:SS.ms' to seconds, 0 when anything fails
time_to_seconds(time_str) ==
    LET parts == Split(time_str, ":")
    IN  IF /\ Len(parts) >= 3
           /\ IntOk(parts[1])
           /\ IntOk(parts[2])
           /\ FloatOk(parts[3])
        THEN (DigitsVal(parts[1]) * 3600 + DigitsVal(parts[2]) * 60) * Scale
               + FloatVal(parts[3])
        ELSE 0

\* faulty variant: the minutes are not reduced modulo the hour
seconds_to_time_minutes_unwrapped(seconds) ==
    LET hours   == seconds \div (3600 * Scale)
        minutes == seconds \div (60 * Scale)
        secs    == (seconds % (60 * Scale)) \div Scale
    IN  Format02d(hours) \o <<":">> \o Format02d(minutes) \o <<":">> \o Format02d(secs)

\* seconds_to_time: seconds (in 1/Scale) to 'HH:MM:SS', fractions truncated
seconds_to_time(seconds) ==
    LET hours   == seconds \div (3600 * Scale)
        minutes == (seconds % (3600 * Scale)) \div (60 * Scale)
        secs    == (seconds % (60 * Scale)) \div Scale
    IN  Format02d(hours) \o <<":">> \o Format02d(minutes) \o <<":">> \o Format02d(secs)

(* --------------------- the external tools ------------------------------ *)

Min(a, b) == IF a <= b THEN a ELSE b

\* math.ceil(a / b) for a >= 0, b > 0
Ceil(a, b) == (a + b - 1) \div b

\* what 'ffprobe -print_format json -show_format' can do: fail to run or
\* time out (raised), exit non-zero, or exit 0 with a format.duration field
\* that is absent, not a number, or a number
FfprobeOutcomes ==
    {[raised |-> TRUE, returncode |-> 0, field |-> "absent", value |-> 0]}
    \cup {[raised |-> FALSE, returncode |-> 1, field |-> "absent", value |-> 0]}
    \cup {[raised |-> FALSE, returncode |-> 0, field |-> f, value |-> 0] :
             f \in {"absent", "non_numeric"}}
    \cup {[raised |-> FALSE, returncode |-> 0, field |-> "numeric",
           value |-> (k * Scale) \div 2] : k \in 0..MaxHalfSeconds}

\* durations <<hours, minutes, seconds, tenths>> that ffmpeg prints
PrintedTimes ==
    {<<0, 0, 1, 0>>, <<0, 0, 3, 5>>, <<0, 2, 1, 0>>, <<0, 2, 3, 5>>, <<0, 2, 5, 0>>}

\* ffmpeg's rendering 'HH:MM:SS.ff' of a duration
TimeText(t) ==
    Format02d(t[1]) \o <<":">> \o Format02d(t[2]) \o <<":">> \o Format02d(t[3])
        \o <<".", DigitChar(t[4]), "0">>

\* the value of a printed duration, in 1/Scale seconds
TimeValue(t) == (t[1] * 3600 + t[2] * 60 + t[3]) * Scale + (t[4] * Scale) \div 10

\* texts that follow 'Duration:' without being a time
MalformedTokens == {<<"N", "/", "A">>, <<"0", "0", ":", "0", "2">>}

DurationLine(tok) == <<" ", " ", "Duration:", " ">> \o tok \o <<",", " ", "s", ":", "0">>

NoiseLine == <<"I", "n", "p", "u", "t", ",", " ", "#", "0">>

DiagnosticLines ==
    {NoiseLine} \cup {DurationLine(TimeText(t)) : t \in PrintedTimes}
                \cup {DurationLine(tok) : tok \in MalformedTokens}

\* what 'ffmpeg -i <video> -f null -' can do: fail to run or time out
\* (raised), or finish with some lines on its error channel
FallbackOutcomes ==
    {[raised |-> TRUE, stderr |-> <<>>]}
    \cup {[raised |-> FALSE, stderr |-> out] :
             out \in UNION {[1..n -> DiagnosticLines] : n \in 0..MaxLines}}

\* what one segment encode can do: time out or fail to run (raised, with
\* the file possibly partly written), or exit with a status, having
\* written the output file or not
EncodeOutcomes ==
    {[raised |-> TRUE, timeout |-> t, returncode |-> 0, written |-> w] :
        t \in BOOLEAN, w \in BOOLEAN}
    \cup {[raised |-> FALSE, timeout |-> FALSE, returncode |-> c, written |-> w] :
             c \in 0..1, w \in BOOLEAN}

(* ----------------------- the duration probe ---------------------------- *)

\* faulty variant: the last line holding 'Duration:' decides
get_duration_fallback_last_line(result) ==
    IF result.raised THEN 0
    ELSE LET output == result.stderr
             hits == {k \in 1..Len(output) :
                         \E j \in 1..Len(output[k]) : output[k][j] = "Duration:"}
         IN  IF hits = {} THEN 0
             ELSE LET line == output[CHOOSE k \in hits : \A h \in hits : k >= h]
                      duration_str == Strip(Split(Split(line, "Duration:")[2], ",")[1])
                  IN  time_to_seconds(duration_str)

\* get_duration_fallback: the first line holding 'Duration:' decides
get_duration_fallback(result) ==
    IF result.raised THEN 0
    ELSE LET output == result.stderr
             hits == {k \in 1..Len(output) :
                         \E j \in 1..Len(output[k]) : output[k][j] = "Duration:"}
         IN  IF hits = {} THEN 0
             ELSE LET line == output[CHOOSE k \in hits : \A h \in hits : k <= h]
                      duration_str == Strip(Split(Split(line, "Duration:")[2], ",")[1])
                  IN  time_to_seconds(duration_str)

\* what get_duration_fallback returns, tabulated over the outcomes of the pass
FallbackDuration == [result \in FallbackOutcomes |-> get_duration_fallback(result)]

\* get_video_duration, first tier: TRUE when ffprobe's answer is used
PrimarySucceeds(result) ==
    ~result.raised /\ result.returncode = 0 /\ result.field = "numeric"

(* ------------------------------ state ---------------------------------- *)

VARIABLES
    segment_duration,     \* self.segment_duration, whole seconds
    keep_audio,           \* self.keep_audio
    quality,              \* self.quality
    is_running,           \* self.is_running, the cancellation flag
    pc,                   \* where run() stands
    duration,             \* run(): duration, in 1/Scale seconds
    total_segments,       \* run(): total_segments
    i,                    \* run(): the loop index
    successful_segments,  \* run(): successful_segments
    events,               \* the signals emitted so far, in order
    files,                \* segment numbers whose output file is on disk
    ffprobe_result,       \* what the first probe tier did
    fallback_result,      \* what the fallback tier did
    fallback_process,     \* get_duration_fallback(): the finished ffmpeg pass
    commands,             \* the encoder invocations made so far
    encode_result,        \* split_segment(): result of the last invocation
    writes,               \* the output paths the encoder wrote in this run
    first_run,            \* what an earlier run with the same settings left
    conversion,           \* a time value on its way through the two conversions
    current_video,        \* VideoCutterGUI: self.current_video
    worker,               \* VideoCutterGUI: self.worker, an index of threads or 0
    output_directory,     \* VideoCutterGUI: self.output_directory
    start_button,         \* VideoCutterGUI: self.start_button is enabled
    stop_button,          \* VideoCutterGUI: self.stop_button is enabled
    minutes_spin,         \* VideoCutterGUI: self.minutes_spin.value()
    seconds_spin,         \* VideoCutterGUI: self.seconds_spin.value()
    threads               \* the workers created so far, in order

vars == <<segment_duration, keep_audio, quality, is_running, pc, duration,
          total_segments, i, successful_segments, events, files,
          ffprobe_result, fallback_result, fallback_process, commands, encode_result,
          writes, first_run, conversion, current_video, worker, output_directory,
          start_button, stop_button, minutes_spin, seconds_spin, threads>>

\* the state of the main window
window == <<current_video, worker, output_directory, start_button, stop_button,
            minutes_spin, seconds_spin, threads>>

\* what a step of one worker's run() never touches
outside == <<window, conversion, first_run>>

config == <<segment_duration, keep_audio, quality>>

Qualities == {"high", "medium", "low"}

\* start_cutting: quality_map, from the entries of the quality box
quality_map ==
    [text \in {"High (Best)", "Medium (Balanced)", "Low (Smaller files)"} |->
        IF text = "High (Best)" THEN "high"
        ELSE IF text = "Medium (Balanced)" THEN "medium"
        ELSE "low"]

\* one emitted signal: its name, its message, and its arguments
Signal(sig, text, num, ok, str) ==
    [sig |-> sig, text |-> text, num |-> num, ok |-> ok, str |-> str]

status_updated(text, num) == Signal("status_updated", text, num, FALSE, <<>>)

log_updated(text, num, str) == Signal("log_updated", text, num, FALSE, str)

progress_updated(percent) == Signal("progress_updated", "", percent, FALSE, <<>>)

segment_completed(segment_num) == Signal("segment_completed", "", segment_num, FALSE, <<>>)

finished(success, text, num) == Signal("finished", text, num, success, <<>>)

\* a video file: the components of its path
Videos == {<<"d1", "a.mp4">>, <<"d2", "b.mp4">>}

\* Python's None for a path
None == <<>>

\* no earlier run
NoFirstRun ==
    [ended |-> FALSE, duration |-> 0, i |-> 0, paths |-> <<>>, writes |-> {},
     completed |-> <<>>, files |-> {}]

\* no conversion under way
NoConversion == [pc |-> "idle", seconds |-> 0, time_str |-> <<>>, result |-> 0]

\* VideoCutterGUI.__init__ and init_ui: nothing loaded, no worker, both
\* buttons disabled, the spin boxes at 2 min 20 sec
WindowInit ==
    /\ current_video = None
    /\ worker = 0
    /\ output_directory = None
    /\ start_button = FALSE
    /\ stop_button = FALSE
    /\ minutes_spin = DefaultMinutes
    /\ seconds_spin = DefaultSeconds
    /\ threads = <<>>

\* VideoSplitterWorker.__init__ with the given arguments, before run()
WorkerInit(segment_minutes, segment_seconds, audio, q) ==
    /\ segment_duration = segment_minutes * 60 + segment_seconds
    /\ keep_audio = audio
    /\ quality = q
    /\ is_running = TRUE
    /\ pc = "ready"
    /\ duration = 0
    /\ total_segments = 0
    /\ i = 0
    /\ successful_segments = 0
    /\ events = <<>>
    /\ ffprobe_result = [called |-> FALSE, raised |-> FALSE, returncode |-> 0,
                         field |-> "absent", value |-> 0]
    /\ fallback_result = [called |-> FALSE, value |-> 0]
    /\ fallback_process = [raised |-> FALSE, stderr |-> <<>>]
    /\ commands = <<>>
    /\ encode_result = [raised |-> FALSE, timeout |-> FALSE, returncode |-> 0,
                        written |-> FALSE]
    /\ writes = {}

\* one worker, created with the arguments start_cutting passes (the spin
\* boxes' values, never both zero), writing into an empty directory; the
\* window is left aside
Init ==
    /\ \E segment_minutes \in 0..MaxMinutes, segment_seconds \in 0..MaxSeconds :
          /\ ~(segment_minutes = 0 /\ segment_seconds = 0)
          /\ \E audio \in BOOLEAN, text \in DOMAIN quality_map :
                WorkerInit(segment_minutes, segment_seconds, audio, quality_map[text])
    /\ files = {}
    /\ first_run = NoFirstRun
    /\ conversion = NoConversion
    /\ WindowInit

\* the runs explored have at most MaxSegments loop iterations, and the
\* second run of a job resolves the duration its first run resolved
Explored(d) ==
    /\ Ceil(d, segment_duration * Scale) <= MaxSegments
    /\ first_run.ended => d = first_run.duration

(* ------------------------ run(): the probe ----------------------------- *)

\* faulty variant: run() turns to the output directory first
RunBeginWithMakeDirs ==
    /\ pc = "ready"
    /\ events' = events \o <<status_updated("Analyzing video...", 0),
                             log_updated("Starting video split", 0, <<>>)>>
    /\ pc' = "makedirs"
    /\ UNCHANGED <<config, outside, writes, is_running, duration, total_segments, i,
                   successful_segments, files, ffprobe_result, fallback_result,
                   fallback_process, commands, encode_result>>

\* run() starts and calls get_video_duration, which launches ffprobe
RunBegin ==
    /\ pc = "ready"
    /\ events' = events \o <<status_updated("Analyzing video...", 0),
                             log_updated("Starting video split", 0, <<>>)>>
    /\ pc' = "ffprobe"
    /\ UNCHANGED <<config, outside, writes, is_running, duration, total_segments, i,
                   successful_segments, files, ffprobe_result, fallback_result,
                   fallback_process, commands, encode_result>>

\* ffprobe exits 0 with a numeric duration: get_video_duration returns it
FfprobeSucceeds ==
    /\ pc = "ffprobe"
    /\ \E result \in FfprobeOutcomes :
          /\ PrimarySucceeds(result)
          /\ Explored(result.value)
          /\ ffprobe_result' = [called |-> TRUE, raised |-> result.raised,
                                returncode |-> result.returncode,
                                field |-> result.field, value |-> result.value]
          /\ duration' = result.value
    /\ pc' = "check_duration"
    /\ UNCHANGED <<config, outside, writes, is_running, total_segments, i, successful_segments,
                   events, files, fallback_result, fallback_process, commands,
                   encode_result>>

\* ffprobe fails: non-zero exit goes straight to the fallback, anything
\* that raises is logged first; the fallback launches ffmpeg
FfprobeFails ==
    /\ pc = "ffprobe"
    /\ \E result \in FfprobeOutcomes :
          /\ ~PrimarySucceeds(result)
          /\ ffprobe_result' = [called |-> TRUE, raised |-> result.raised,
                                returncode |-> result.returncode,
                                field |-> result.field, value |-> result.value]
          /\ events' = IF ~result.raised /\ result.returncode # 0
                       THEN events
                       ELSE Append(events,
                              log_updated("Warning: Could not get precise duration", 0, <<>>))
    /\ pc' = "ffmpeg_probe"
    /\ UNCHANGED <<config, outside, writes, is_running, duration, total_segments, i,
                   successful_segments, files, fallback_result, fallback_process,
                   commands, encode_result>>

\* the diagnostic pass ends: subprocess.run returns its output or raises
FfmpegProbeExits ==
    /\ pc = "ffmpeg_probe"
    /\ fallback_process' \in FallbackOutcomes
    /\ Explored(FallbackDuration[fallback_process'])
    /\ pc' = "ffmpeg_probe_done"
    /\ UNCHANGED <<config, outside, writes, is_running, duration, total_segments, i,
                   successful_segments, events, files, ffprobe_result,
                   fallback_result, commands, encode_result>>

\* get_duration_fallback scans the output and its value becomes the
\* duration of run()
FallbackReturns ==
    /\ pc = "ffmpeg_probe_done"
    /\ fallback_result' = [called |-> TRUE, value |-> FallbackDuration[fallback_process]]
    /\ duration' = FallbackDuration[fallback_process]
    /\ fallback_process' = [raised |-> FALSE, stderr |-> <<>>]
    /\ pc' = "check_duration"
    /\ UNCHANGED <<config, outside, writes, is_running, total_segments, i, successful_segments,
                   events, files, ffprobe_result, commands, encode_result>>

\* faulty variant: a duration <= 0 is planned like any other
DurationUnavailableIsPlanned ==
    /\ pc = "check_duration"
    /\ duration <= 0
    /\ total_segments' = Ceil(duration, segment_duration * Scale)
    /\ events' = Append(events,
          log_updated("Total segments to create", Ceil(duration, segment_duration * Scale), <<>>))
    /\ pc' = "makedirs"
    /\ UNCHANGED <<config, outside, writes, is_running, duration, i, successful_segments, files,
                   ffprobe_result, fallback_result, fallback_process, commands,
                   encode_result>>

\* run(): a duration <= 0 ends the run
DurationUnavailable ==
    /\ pc = "check_duration"
    /\ duration <= 0
    /\ events' = Append(events, finished(FALSE, "Could not determine video duration", 0))
    /\ pc' = "done"
    /\ UNCHANGED <<config, outside, writes, is_running, duration, total_segments, i,
                   successful_segments, files, ffprobe_result, fallback_result,
                   fallback_process, commands, encode_result>>

\* run(): the plan size is computed and logged
PlanSegments ==
    /\ pc = "check_duration"
    /\ duration > 0
    /\ total_segments' = Ceil(duration, segment_duration * Scale)
    /\ events' = events \o
         <<log_updated("Video duration", 0, seconds_to_time(duration)),
           log_updated("Segment duration", 0, seconds_to_time(segment_duration * Scale)),
           log_updated("Total segments to create", Ceil(duration, segment_duration * Scale), <<>>)>>
    /\ pc' = "makedirs"
    /\ UNCHANGED <<config, outside, writes, is_running, duration, i, successful_segments, files,
                   ffprobe_result, fallback_result, fallback_process, commands,
                   encode_result>>

\* faulty variant: the except branch logs but reports nothing
RaiseInRunLogOnly(evs) ==
    Append(evs, log_updated("Error", 0, <<>>))

\* faulty variant: the except branch reports the run as successful
RaiseInRunAsSuccess(evs) ==
    evs \o <<log_updated("Error", 0, <<>>), finished(TRUE, "Error", 0)>>

\* the except branch of run(): log the error, report it
RaiseInRun(evs) ==
    evs \o <<log_updated("Error", 0, <<>>), finished(FALSE, "Error", 0)>>

\* os.makedirs(exist_ok=True) creates the directory or finds it
MakeDirs ==
    /\ pc = "makedirs"
    /\ i' = 0
    /\ successful_segments' = 0
    /\ pc' = "loop"
    /\ UNCHANGED <<config, outside, writes, is_running, duration, total_segments, events, files,
                   ffprobe_result, fallback_result, fallback_process, commands,
                   encode_result>>

\* os.makedirs raises: run()'s except branch reports the error
MakeDirsFails ==
    /\ pc = "makedirs"
    /\ events' = RaiseInRun(events)
    /\ pc' = "done"
    /\ UNCHANGED <<config, outside, writes, is_running, duration, total_segments, i,
                   successful_segments, files, ffprobe_result, fallback_result,
                   fallback_process, commands, encode_result>>

(* ------------------------ run(): the loop ------------------------------ *)

\* start_time = i * self.segment_duration
start_time(k) == k * segment_duration * Scale

\* faulty variant: the end of the window is not clamped to the duration
end_time_unclamped(k) == start_time(k) + segment_duration * Scale

\* end_time = min(start_time + self.segment_duration, duration)
end_time(k) == Min(start_time(k) + segment_duration * Scale, duration)

\* actual_duration = end_time - start_time
actual_duration(k) == end_time(k) - start_time(k)

\* faulty variant: the first window is skipped as well
SkipSegmentAndFirstWindow(k) == actual_duration(k) <= 1 * Scale \/ k = 0

\* faulty variant: only windows shorter than 1 second are skipped
SkipSegmentBelowOneSecond(k) == actual_duration(k) < 1 * Scale

\* if actual_duration <= 1: continue
SkipSegment(k) == actual_duration(k) <= 1 * Scale

\* f"{segment_num:03d}"
Format03d(n) == IF n < 10 THEN <<"0", "0">> \o Str(n)
                ELSE IF n < 100 THEN <<"0">> \o Str(n)
                ELSE Str(n)

\* faulty variant: the number continues after the files already there
output_filename_after_existing(segment_num) ==
    <<"_", "p", "a", "r", "t", "_">> \o Format03d(segment_num + Cardinality(files))
        \o <<".", "m", "p", "4">>

\* output_filename = f"{video_name}_part_{segment_num:03d}.mp4"
output_filename(segment_num) ==
    <<"_", "p", "a", "r", "t", "_">> \o Format03d(segment_num) \o <<".", "m", "p", "4">>

\* faulty variant: a smaller value when the audio is dropped
CrfByTierAndAudio(q) ==
    (IF q = "high" THEN 18 ELSE IF q = "medium" THEN 23 ELSE 28)
        - (IF keep_audio THEN 0 ELSE 1)

\* split_segment: the -crf value of a quality tier
Crf(q) == IF q = "high" THEN 18 ELSE IF q = "medium" THEN 23 ELSE 28

\* split_segment: the ffmpeg command line
BuildCommand(start, length, output_path) ==
    [ss |-> start, t |-> length, crf |-> Crf(quality), an |-> ~keep_audio,
     overwrite |-> TRUE, output_path |-> output_path]

\* ffmpeg writes its output file only where none exists, unless '-y' is given
CanWrite(cmd) == cmd.overwrite \/ cmd.output_path \notin files

\* faulty variant: the exit status alone decides
split_segment_exit_only(result, exists) == result.returncode = 0

\* split_segment: return result.returncode == 0 and os.path.exists(output_path)
split_segment(result, exists) == result.returncode = 0 /\ exists

\* progress = int((segment_num / total_segments) * 100)
Progress(segment_num, total) == (segment_num * 100) \div total

\* for i in range(total_segments): the range is exhausted
LoopExhausted ==
    /\ pc = "loop"
    /\ i >= total_segments
    /\ pc' = "after_loop"
    /\ UNCHANGED <<config, outside, writes, is_running, duration, total_segments, i,
                   successful_segments, events, files, ffprobe_result,
                   fallback_result, fallback_process, commands, encode_result>>

\* faulty variant: 'continue' where the source has 'break'
LoopBreakAsContinue ==
    /\ pc = "loop"
    /\ i < total_segments
    /\ ~is_running
    /\ i' = i + 1
    /\ UNCHANGED <<config, outside, writes, is_running, pc, duration, total_segments,
                   successful_segments, events, files, ffprobe_result,
                   fallback_result, fallback_process, commands, encode_result>>

\* if not self.is_running: break
LoopBreak ==
    /\ pc = "loop"
    /\ i < total_segments
    /\ ~is_running
    /\ pc' = "after_loop"
    /\ UNCHANGED <<config, outside, writes, is_running, duration, total_segments, i,
                   successful_segments, events, files, ffprobe_result,
                   fallback_result, fallback_process, commands, encode_result>>

\* if actual_duration <= 1: continue
LoopSkip ==
    /\ pc = "loop"
    /\ i < total_segments
    /\ is_running
    /\ SkipSegment(i)
    /\ i' = i + 1
    /\ UNCHANGED <<config, outside, writes, is_running, pc, duration, total_segments,
                   successful_segments, events, files, ffprobe_result,
                   fallback_result, fallback_process, commands, encode_result>>

\* the window is announced and split_segment launches ffmpeg for it
EncodeStart ==
    /\ pc = "loop"
    /\ i < total_segments
    /\ is_running
    /\ ~SkipSegment(i)
    /\ events' = events \o
         <<status_updated("Creating segment", i + 1),
           log_updated("Processing segment", i + 1,
                       seconds_to_time(start_time(i)) \o <<" ", "-", " ">>
                           \o seconds_to_time(end_time(i)))>>
    /\ commands' = Append(commands,
                     BuildCommand(start_time(i), actual_duration(i), output_filename(i + 1)))
    /\ pc' = "encoding"
    /\ UNCHANGED <<config, outside, writes, is_running, duration, total_segments, i,
                   successful_segments, files, ffprobe_result, fallback_result,
                   fallback_process, encode_result>>

\* faulty variant: a failed segment reports no progress
AfterSplitProgressOnSuccess(evs, success) ==
    evs \o (IF success
            THEN <<segment_completed(i + 1), log_updated("Segment completed", i + 1, <<>>),
                   progress_updated(Progress(i + 1, total_segments))>>
            ELSE <<log_updated("Failed to create segment", i + 1, <<>>)>>)

\* run(): what follows split_segment's return for segment i + 1
AfterSplit(evs, success) ==
    evs \o (IF success
            THEN <<segment_completed(i + 1), log_updated("Segment completed", i + 1, <<>>)>>
            ELSE <<log_updated("Failed to create segment", i + 1, <<>>)>>)
        \o <<progress_updated(Progress(i + 1, total_segments))>>

\* ffmpeg exits: split_segment returns its verdict, run() counts and
\* reports the segment and moves to the next window
EncodeReturns ==
    /\ pc = "encoding"
    /\ \E result \in EncodeOutcomes :
          /\ ~result.raised
          /\ encode_result' = result
          /\ result.written => CanWrite(commands[Len(commands)])
          /\ files' = IF result.written
                      THEN files \cup {output_filename(i + 1)} ELSE files
          /\ writes' = IF result.written
                       THEN writes \cup {output_filename(i + 1)} ELSE writes
    /\ LET success == split_segment(encode_result', output_filename(i + 1) \in files')
       IN  /\ successful_segments' =
                  IF success THEN successful_segments + 1 ELSE successful_segments
           /\ events' = AfterSplit(events, success)
    /\ i' = i + 1
    /\ pc' = "loop"
    /\ UNCHANGED <<config, outside, is_running, duration, total_segments, ffprobe_result,
                   fallback_result, fallback_process, commands>>

\* faulty variant: split_segment lets the exception reach run()'s handler
EncodeRaisesUncaught ==
    /\ pc = "encoding"
    /\ \E result \in EncodeOutcomes :
          /\ result.raised
          /\ encode_result' = result
          /\ result.written => CanWrite(commands[Len(commands)])
          /\ files' = IF result.written
                      THEN files \cup {output_filename(i + 1)} ELSE files
          /\ writes' = IF result.written
                       THEN writes \cup {output_filename(i + 1)} ELSE writes
    /\ events' = RaiseInRun(events)
    /\ pc' = "done"
    /\ UNCHANGED <<config, outside, is_running, duration, total_segments, i,
                   successful_segments, ffprobe_result, fallback_result,
                   fallback_process, commands>>

\* faulty variant: a segment whose encode raised is tried again
EncodeRaisesRetries ==
    /\ pc = "encoding"
    /\ \E result \in EncodeOutcomes :
          /\ result.raised
          /\ encode_result' = result
          /\ result.written => CanWrite(commands[Len(commands)])
          /\ files' = IF result.written
                      THEN files \cup {output_filename(i + 1)} ELSE files
          /\ writes' = IF result.written
                       THEN writes \cup {output_filename(i + 1)} ELSE writes
    /\ events' = Append(events,
                   IF encode_result'.timeout
                   THEN log_updated("Segment processing timed out", 0, <<>>)
                   ELSE log_updated("Error processing segment", 0, <<>>))
    /\ pc' = "loop"
    /\ UNCHANGED <<config, outside, is_running, duration, total_segments, i,
                   successful_segments, ffprobe_result, fallback_result,
                   fallback_process, commands>>

\* subprocess.run raises (TimeoutExpired or another exception):
\* split_segment logs it and returns False, run() goes on
EncodeRaises ==
    /\ pc = "encoding"
    /\ \E result \in EncodeOutcomes :
          /\ result.raised
          /\ encode_result' = result
          /\ result.written => CanWrite(commands[Len(commands)])
          /\ files' = IF result.written
                      THEN files \cup {output_filename(i + 1)} ELSE files
          /\ writes' = IF result.written
                       THEN writes \cup {output_filename(i + 1)} ELSE writes
    /\ events' = AfterSplit(
          Append(events,
                 IF encode_result'.timeout
                 THEN log_updated("Segment processing timed out", 0, <<>>)
                 ELSE log_updated("Error processing segment", 0, <<>>)),
          FALSE)
    /\ i' = i + 1
    /\ pc' = "loop"
    /\ UNCHANGED <<config, outside, is_running, duration, total_segments,
                   successful_segments, ffprobe_result, fallback_result,
                   fallback_process, commands>>

\* faulty variant: success only when every planned segment succeeded
FinalEventsAllOrNothing(running, successful) ==
    IF running
    THEN IF successful >= total_segments
         THEN <<log_updated("Successfully created segments", successful, <<>>),
                finished(TRUE, "Successfully split video into segments", successful)>>
         ELSE <<finished(FALSE, "No segments were created successfully", 0)>>
    ELSE <<finished(FALSE, "Operation cancelled by user", 0)>>

\* faulty variant: zero successful segments still counts as success
FinalEventsZeroIsSuccess(running, successful) ==
    IF running
    THEN IF successful >= 0
         THEN <<log_updated("Successfully created segments", successful, <<>>),
                finished(TRUE, "Successfully split video into segments", successful)>>
         ELSE <<finished(FALSE, "No segments were created successfully", 0)>>
    ELSE <<finished(FALSE, "Operation cancelled by user", 0)>>

\* faulty variant: the message counts the windows attempted
FinalEventsCountsAttempts(running, successful) ==
    IF running
    THEN IF successful > 0
         THEN <<log_updated("Successfully created segments", Len(commands), <<>>),
                finished(TRUE, "Successfully split video into segments", Len(commands))>>
         ELSE <<finished(FALSE, "No segments were created successfully", 0)>>
    ELSE <<finished(FALSE, "Operation cancelled by user", 0)>>

\* faulty variant: a success count is looked at before the cancel flag
FinalEventsSuccessFirst(running, successful) ==
    IF successful > 0
    THEN <<log_updated("Successfully created segments", successful, <<>>),
           finished(TRUE, "Successfully split video into segments", successful)>>
    ELSE IF running
         THEN <<finished(FALSE, "No segments were created successfully", 0)>>
         ELSE <<finished(FALSE, "Operation cancelled by user", 0)>>

\* run(): the outcome reported after the loop
FinalEvents(running, successful) ==
    IF running
    THEN IF successful > 0
         THEN <<log_updated("Successfully created segments", successful, <<>>),
                finished(TRUE, "Successfully split video into segments", successful)>>
         ELSE <<finished(FALSE, "No segments were created successfully", 0)>>
    ELSE <<finished(FALSE, "Operation cancelled by user", 0)>>

\* run(): the check after the loop
Finish ==
    /\ pc = "after_loop"
    /\ events' = events \o FinalEvents(is_running, successful_segments)
    /\ pc' = "done"
    /\ UNCHANGED <<config, outside, writes, is_running, duration, total_segments, i,
                   successful_segments, files, ffprobe_result, fallback_result,
                   fallback_process, commands, encode_result>>

\* faulty variant: stop() also resets the count of successful segments
stopResetsCount ==
    /\ is_running' = FALSE
    /\ successful_segments' = 0
    /\ UNCHANGED <<config, outside, writes, pc, duration, total_segments, i,
                   events, files, ffprobe_result, fallback_result, fallback_process,
                   commands, encode_result>>

\* faulty variant: stop() also kills the encode in flight, whose outcome
\* is never reported
stopKillsEncode ==
    /\ is_running' = FALSE
    /\ pc' = IF pc = "encoding" THEN "loop" ELSE pc
    /\ UNCHANGED <<config, outside, writes, duration, total_segments, i, successful_segments,
                   events, files, ffprobe_result, fallback_result, fallback_process,
                   commands, encode_result>>

\* stop(): called from the window's thread at any moment
stop ==
    /\ is_running' = FALSE
    /\ UNCHANGED <<config, outside, writes, pc, duration, total_segments, i, successful_segments,
                   events, files, ffprobe_result, fallback_result, fallback_process,
                   commands, encode_result>>

\* the steps of the worker thread
run ==
    \/ RunBegin
    \/ FfprobeSucceeds
    \/ FfprobeFails
    \/ FfmpegProbeExits
    \/ FallbackReturns
    \/ DurationUnavailable
    \/ PlanSegments
    \/ MakeDirs
    \/ MakeDirsFails
    \/ LoopExhausted
    \/ LoopBreak
    \/ LoopSkip
    \/ EncodeStart
    \/ EncodeReturns
    \/ EncodeRaises
    \/ Finish

Next == run \/ stop

Spec == Init /\ [][Next]_vars

\* every external call returns or times out, and the thread keeps running
FairSpec == Spec /\ WF_vars(run)

(* -------------------------- the main window --------------------------- *)

\* the variables of the one worker that Spec follows
worker_run == <<config, is_running, pc, duration, total_segments, i,
                successful_segments, events, files, ffprobe_result,
                fallback_result, fallback_process, commands, encode_result, writes>>

\* os.path.dirname(video_path)
dirname(video_path) == SubSeq(video_path, 1, Len(video_path) - 1)

\* a worker as the window sees it: a thread that executes run(), then has
\* its finished signal queued for the window, then has had it handled
NewThread(output_dir) ==
    [state |-> "running", is_running |-> TRUE, output_dir |-> output_dir,
     success |-> FALSE]

\* load_video, from the drop area or the file dialog, which stay active
\* during a run: a missing file only shows a warning
load_video(video_path, exists) ==
    /\ IF exists
       THEN /\ current_video' = video_path
            /\ start_button' = TRUE
            /\ output_directory' =
                  IF output_directory = None
                  THEN dirname(video_path) \o <<"video_segments">>
                  ELSE output_directory
       ELSE UNCHANGED <<current_video, start_button, output_directory>>
    /\ UNCHANGED <<worker, stop_button, minutes_spin, seconds_spin, threads,
                   worker_run, conversion, first_run>>

\* the user edits the two spin boxes
set_segment_duration(minutes, seconds) ==
    /\ minutes_spin' = minutes
    /\ seconds_spin' = seconds
    /\ UNCHANGED <<current_video, worker, output_directory, start_button,
                   stop_button, threads, worker_run, conversion, first_run>>

\* start_cutting without the check of a zero segment duration
start_cutting_accepts_zero(ffmpeg_available) ==
    /\ start_button
    /\ Len(threads) < MaxWorkers
    /\ IF \/ current_video = None
          \/ ~ffmpeg_available
       THEN UNCHANGED <<start_button, stop_button, worker, threads>>
       ELSE /\ start_button' = FALSE
            /\ stop_button' = TRUE
            /\ threads' = Append(threads,
                  NewThread(IF output_directory # None THEN output_directory
                            ELSE dirname(current_video) \o <<"video_segments">>))
            /\ worker' = Len(threads) + 1
    /\ UNCHANGED <<current_video, output_directory, minutes_spin, seconds_spin,
                   worker_run, conversion, first_run>>

\* start_cutting, the slot of the start button's clicked signal: returns
\* with a message box when no video is loaded, when ffmpeg is missing or
\* when the segment duration is zero; otherwise flips the buttons, creates
\* a worker and starts its thread
start_cutting(ffmpeg_available) ==
    /\ start_button
    /\ Len(threads) < MaxWorkers
    /\ IF \/ current_video = None
          \/ ~ffmpeg_available
          \/ (minutes_spin = 0 /\ seconds_spin = 0)
       THEN UNCHANGED <<start_button, stop_button, worker, threads>>
       ELSE /\ start_button' = FALSE
            /\ stop_button' = TRUE
            /\ threads' = Append(threads,
                  NewThread(IF output_directory # None THEN output_directory
                            ELSE dirname(current_video) \o <<"video_segments">>))
            /\ worker' = Len(threads) + 1
    /\ UNCHANGED <<current_video, output_directory, minutes_spin, seconds_spin,
                   worker_run, conversion, first_run>>

\* stop_cutting, the slot of the stop button's clicked signal
stop_cutting ==
    /\ stop_button
    /\ threads' = IF worker # 0
                  THEN [threads EXCEPT ![worker].is_running = FALSE]
                  ELSE threads
    /\ UNCHANGED <<current_video, worker, output_directory, start_button,
                   stop_button, minutes_spin, seconds_spin, worker_run,
                   conversion, first_run>>

\* run() of worker w emits finished and returns; the signal is queued for
\* the window's thread
run_ends(w, success) ==
    /\ threads[w].state = "running"
    /\ threads' = [threads EXCEPT ![w].state = "finished", ![w].success = success]
    /\ UNCHANGED <<current_video, worker, output_directory, start_button,
                   stop_button, minutes_spin, seconds_spin, worker_run,
                   conversion, first_run>>

\* cutting_finished, the slot of every worker's finished signal
cutting_finished(w) ==
    /\ threads[w].state = "finished"
    /\ start_button' = TRUE
    /\ stop_button' = FALSE
    /\ worker' = 0
    /\ threads' = [threads EXCEPT ![w].state = "handled"]
    /\ UNCHANGED <<current_video, output_directory, minutes_spin, seconds_spin,
                   worker_run, conversion, first_run>>

\* the window starts empty; the variables Spec uses for its one worker rest
GuiInit ==
    /\ WindowInit
    /\ WorkerInit(DefaultMinutes, DefaultSeconds, TRUE, "high")
    /\ files = {}
    /\ first_run = NoFirstRun
    /\ conversion = NoConversion

GuiNext ==
    \/ \E video_path \in Videos, exists \in BOOLEAN : load_video(video_path, exists)
    \/ \E minutes \in 0..MaxMinutes, seconds \in 0..MaxSeconds :
          set_segment_duration(minutes, seconds)
    \/ \E ffmpeg_available \in BOOLEAN : start_cutting(ffmpeg_available)
    \/ stop_cutting
    \/ \E w \in 1..Len(threads), success \in BOOLEAN : run_ends(w, success)
    \/ \E w \in 1..Len(threads) : cutting_finished(w)

\* the window with the workers it creates, each reduced to its lifetime
GuiSpec == GuiInit /\ [][GuiNext]_vars

(* ------------------------ the same job twice --------------------------- *)

\* the finished worker object started a second time: its cancel flag is
\* whatever the first run left
RerunRestartsFinishedWorker ==
    /\ pc = "done"
    /\ ~first_run.ended
    /\ total_segments <= MaxRerunSegments
    /\ first_run' = [ended     |-> TRUE,
                     duration  |-> duration,
                     i         |-> i,
                     paths     |-> [k \in 1..Len(commands) |-> commands[k].output_path],
                     writes    |-> writes,
                     completed |-> SelectSeq(events, LAMBDA e : e.sig = "segment_completed"),
                     files     |-> files]
    /\ pc' = "ready"
    /\ duration' = 0
    /\ total_segments' = 0
    /\ i' = 0
    /\ successful_segments' = 0
    /\ events' = <<>>
    /\ ffprobe_result' = [called |-> FALSE, raised |-> FALSE, returncode |-> 0,
                          field |-> "absent", value |-> 0]
    /\ fallback_result' = [called |-> FALSE, value |-> 0]
    /\ commands' = <<>>
    /\ encode_result' = [raised |-> FALSE, timeout |-> FALSE, returncode |-> 0,
                         written |-> FALSE]
    /\ writes' = {}
    /\ UNCHANGED <<config, is_running, files, fallback_process, window, conversion>>

\* after cutting_finished the user presses Start again with the settings
\* and the video unchanged: what the finished run did is kept for
\* comparison and a new worker starts over the directory as it stands
Rerun ==
    /\ pc = "done"
    /\ ~first_run.ended
    /\ total_segments <= MaxRerunSegments
    /\ first_run' = [ended     |-> TRUE,
                     duration  |-> duration,
                     i         |-> i,
                     paths     |-> [k \in 1..Len(commands) |-> commands[k].output_path],
                     writes    |-> writes,
                     completed |-> SelectSeq(events, LAMBDA e : e.sig = "segment_completed"),
                     files     |-> files]
    /\ is_running' = TRUE
    /\ pc' = "ready"
    /\ duration' = 0
    /\ total_segments' = 0
    /\ i' = 0
    /\ successful_segments' = 0
    /\ events' = <<>>
    /\ ffprobe_result' = [called |-> FALSE, raised |-> FALSE, returncode |-> 0,
                          field |-> "absent", value |-> 0]
    /\ fallback_result' = [called |-> FALSE, value |-> 0]
    /\ commands' = <<>>
    /\ encode_result' = [raised |-> FALSE, timeout |-> FALSE, returncode |-> 0,
                         written |-> FALSE]
    /\ writes' = {}
    /\ UNCHANGED <<config, files, fallback_process, window, conversion>>

\* a job with the window's default quality and audio settings
RerunInit == Init /\ keep_audio = TRUE /\ quality = "high"

RerunNext == Next \/ Rerun

\* one job run twice over the same output directory
RerunSpec == RerunInit /\ [][RerunNext]_vars

(* ---------------------- the conversions alone -------------------------- *)

\* whole hours added to the inputs: one, two and three digit hour fields
HourOffsets == {0, 10, 100}

\* the whole numbers of seconds the conversions are applied to
WholeSeconds ==
    {h * 3600 + k : h \in HourOffsets, k \in 0..MaxWholeSeconds}

\* seconds_to_time applied to a whole number of seconds
Format ==
    /\ conversion.pc = "input"
    /\ conversion' = [conversion EXCEPT
                         !.pc = "formatted",
                         !.time_str = seconds_to_time(conversion.seconds * Scale)]
    /\ UNCHANGED <<worker_run, window, first_run>>

\* the text gets a fraction of n zeros, as ffmpeg prints one
AppendZeroFraction(n) ==
    /\ conversion.pc = "formatted"
    /\ conversion' = [conversion EXCEPT
                         !.pc = "fraction",
                         !.time_str = conversion.time_str \o <<".">>
                                          \o [k \in 1..n |-> "0"]]
    /\ UNCHANGED <<worker_run, window, first_run>>

\* time_to_seconds applied to the text
Parse ==
    /\ conversion.pc \in {"formatted", "fraction"}
    /\ conversion' = [conversion EXCEPT
                         !.pc = "parsed",
                         !.result = time_to_seconds(conversion.time_str)]
    /\ UNCHANGED <<worker_run, window, first_run>>

RoundTripInit ==
    /\ conversion \in {[pc |-> "input", seconds |-> s, time_str |-> <<>>, result |-> 0] :
                          s \in WholeSeconds}
    /\ WindowInit
    /\ WorkerInit(DefaultMinutes, DefaultSeconds, TRUE, "high")
    /\ files = {}
    /\ first_run = NoFirstRun

RoundTripNext ==
    \/ Format
    \/ \E n \in 1..MaxFractionDigits : AppendZeroFraction(n)
    \/ Parse

\* seconds_to_time followed by time_to_seconds, on whole seconds
RoundTripSpec == RoundTripInit /\ [][RoundTripNext]_vars

(* ------------------------- observations -------------------------------- *)

Last(s) == s[Len(s)]

FinishedEvents == SelectSeq(events, LAMBDA e : e.sig = "finished")

CompletedEvents == SelectSeq(events, LAMBDA e : e.sig = "segment_completed")

ProgressEvents == SelectSeq(events, LAMBDA e : e.sig = "progress_updated")

\* segment numbers announced by 'Creating segment n/total'
AttemptedNums ==
    {events[k].num : k \in {j \in 1..Len(events) :
        events[j].sig = "status_updated" /\ events[j].text = "Creating segment"}}

Cancelled == finished(FALSE, "Operation cancelled by user", 0)

NoSegmentsCreated == finished(FALSE, "No segments were created successfully", 0)

DurationUnavailableMsg == finished(FALSE, "Could not determine video duration", 0)

\* the run went through the whole loop and reported by the success count
EndedUncancelled ==
    /\ pc = "done"
    /\ Last(events).sig = "finished"
    /\ Last(events).text \in {"Successfully split video into segments",
                              "No segments were created successfully"}

(* --------------------------- the claims -------------------------------- *)

\* the window an encoder invocation covers
WindowStart(c) == c.ss

WindowEnd(c) == c.ss + c.t

\* the attempted windows are contiguous from 0 and leave at most 1 second
CoversSource ==
    IF commands = <<>> THEN duration <= 1 * Scale
    ELSE /\ WindowStart(commands[1]) = 0
         /\ \A k \in 1..(Len(commands) - 1) :
               WindowEnd(commands[k]) = WindowStart(commands[k + 1])
         /\ WindowEnd(Last(commands)) <= duration
         /\ duration - WindowEnd(Last(commands)) <= 1 * Scale

\* C1: in a run that went through its whole loop, the attempted windows
\* are pairwise non-overlapping, strictly increasing in start time, and
\* cover [0, duration) but for a trailing span of at most 1 second
C1_WindowsPartitionSource ==
    EndedUncancelled =>
        /\ \A a, b \in 1..Len(commands) :
              a < b => /\ WindowStart(commands[a]) < WindowStart(commands[b])
                       /\ WindowEnd(commands[a]) <= WindowStart(commands[b])
        /\ \A a \in 1..Len(commands) : WindowStart(commands[a]) < WindowEnd(commands[a])
        /\ CoversSource

\* length of the final window of the plan, ceil(D/L) windows of L seconds
FinalWindowLength ==
    duration - (Ceil(duration, segment_duration * Scale) - 1) * segment_duration * Scale

\* C2: an uncancelled run attempts ceil(D/L) or ceil(D/L) - 1 windows, the
\* latter exactly when the final window is at most 1 second long
C2_WindowCount ==
    EndedUncancelled =>
        /\ Len(commands) \in {Ceil(duration, segment_duration * Scale),
                              Ceil(duration, segment_duration * Scale) - 1}
        /\ (Len(commands) = Ceil(duration, segment_duration * Scale) - 1)
              <=> (FinalWindowLength <= 1 * Scale)

\* C3: a cancel flag seen at a window boundary stops the loop at once: no
\* further window is attempted, the windows attempted are those completed
\* before the boundary, and the run reports the cancelled outcome
C3_CancelStopsLoop ==
    /\ [][ /\ (pc = "loop" /\ i < total_segments /\ ~is_running)
               => /\ commands' = commands
                  /\ i' = i
                  /\ pc' \in {"loop", "after_loop"}
           /\ (pc = "after_loop" /\ i < total_segments)
               => /\ commands' = commands
                  /\ (pc' # pc => pc' = "done" /\ Last(events') = Cancelled) ]_vars
    /\ []((pc = "after_loop" /\ i < total_segments)
             => /\ AttemptedNums \subseteq 1..i
                /\ Cardinality(AttemptedNums) = Len(commands)
                /\ Len(commands) = Len(ProgressEvents))
    /\ [][pc = "done" => commands' = commands /\ events' = events]_vars

\* C3 witness: cancelled after two windows, with windows left in the plan
C3_Witness ==
    /\ pc = "done"
    /\ Last(events) = Cancelled
    /\ i = 2
    /\ total_segments > 2
    /\ ~SkipSegment(2)
    /\ Len(commands) = 2

\* C4 as stated: the loop was never left early and a segment succeeded,
\* so the run reports success
C4_CompletedWheneverLoopExhausted ==
    (pc = "done" /\ i = total_segments /\ successful_segments > 0)
        => (Last(events).sig = "finished" /\ Last(events).ok = TRUE)

\* C4 amended: the loop was never left early, the cancel flag is still
\* unset at the check after the loop, and a segment succeeded: the run
\* reports success with the count
C4_CompletedWhenNotCancelled ==
    [][(pc = "after_loop" /\ pc' = "done" /\ i = total_segments
          /\ is_running /\ successful_segments > 0)
        => Last(events') =
              finished(TRUE, "Successfully split video into segments", successful_segments)]_vars

\* C4 witness: success reported although one segment failed
C4_Witness ==
    /\ pc = "done"
    /\ i = total_segments
    /\ successful_segments > 0
    /\ successful_segments < Len(commands)
    /\ Last(events).sig = "finished"
    /\ Last(events).ok

\* no exception was handled on the way
NoErrorReported ==
    \A k \in 1..Len(events) : events[k].text # "Error"

\* C5: all windows processed, no cancellation, no segment succeeded: the
\* run reports the no-segments-created failure, without any exception
C5_NoSegmentsCreated ==
    [][(pc = "after_loop" /\ pc' = "done" /\ i = total_segments
          /\ is_running /\ successful_segments = 0)
        => /\ Last(events') = NoSegmentsCreated
           /\ Len(SelectSeq(events', LAMBDA e : e.sig = "finished")) = 1
           /\ \A k \in 1..Len(events') : events'[k].text # "Error"]_vars

\* C5 witness: two windows attempted, both failed
C5_Witness ==
    /\ pc = "done"
    /\ Last(events) = NoSegmentsCreated
    /\ Len(commands) >= 2
    /\ successful_segments = 0

\* C6: every run emits exactly one finished event, as its last event, on
\* every path, and eventually does so
C6_FinishedExactlyOnce ==
    /\ [](Len(FinishedEvents) <= 1)
    /\ [](pc # "done" => Len(FinishedEvents) = 0)
    /\ [](pc = "done" => Len(FinishedEvents) = 1 /\ Last(events).sig = "finished")
    /\ <>(pc = "done")

\* C6 witness: the exception path ended the run with its finished event
C6_Witness ==
    /\ pc = "done"
    /\ Len(FinishedEvents) = 1
    /\ Last(events) = finished(FALSE, "Error", 0)

\* the windows of the plan that are not skipped
PlannedWindows == {k \in 0..(total_segments - 1) : ~SkipSegment(k)}

\* C7: a failed encode never ends the loop: the loop is left early only
\* on cancellation, and a run that was not cancelled attempted every
\* window of the plan whatever failed
C7_FailuresAreLocal ==
    /\ []((pc = "after_loop" /\ i < total_segments) => ~is_running)
    /\ []((pc = "done" /\ commands # <<>> /\ Last(events) # Cancelled)
             => /\ Len(commands) = Cardinality(PlannedWindows)
                /\ i = total_segments
                /\ NoErrorReported)
    /\ [][pc = "encoding" /\ pc' # pc => pc' = "loop" /\ i' = i + 1]_vars

\* C7 witness: segment 1 timed out and segment 2 was still attempted
C7_Witness ==
    /\ pc = "done"
    /\ Len(commands) >= 2
    /\ \E k \in 1..Len(events) :
          /\ events[k].text = "Segment processing timed out"
          /\ \E j \in (k + 1)..Len(events) :
                events[j] = status_updated("Creating segment", 2)

\* C8: the duration-unavailable failure is reported only after the
\* fallback tier was invoked and failed as well
C8_UnavailableOnlyAfterFallback ==
    (\E k \in 1..Len(events) : events[k] = DurationUnavailableMsg)
        => (fallback_result.called /\ fallback_result.value = 0)

\* the first tier failed: error or timeout, non-zero exit, or a duration
\* field that is absent or not a number
PrimaryFailed(r) ==
    r.called /\ (r.raised \/ r.returncode # 0 \/ r.field \in {"absent", "non_numeric"})

\* the first 'Duration:' token of the output is the printed time t
FirstTokenIs(output, t) ==
    \E k \in 1..Len(output) :
        /\ output[k] = DurationLine(TimeText(t))
        /\ \A j \in 1..(k - 1) : output[j] = NoiseLine

\* C9: when the first tier fails the fallback is invoked, and the duration
\* is hours*3600 + minutes*60 + seconds of its first 'Duration:' token
C9_FallbackResolvesDuration ==
    [][ /\ (pc = "ffprobe" /\ pc' # pc /\ PrimaryFailed(ffprobe_result'))
            => pc' = "ffmpeg_probe"
        /\ (pc = "ffmpeg_probe_done" /\ pc' # pc)
            => /\ PrimaryFailed(ffprobe_result)
               /\ fallback_result'.called
               /\ \A t \in PrintedTimes :
                     FirstTokenIs(fallback_process.stderr, t) => duration' = TimeValue(t) ]_vars

\* C9 witness: ffprobe exited non-zero, the fallback printed
\* 'Duration: 00:02:03.50,' after a line without one: 123.5 seconds
C9_Witness ==
    /\ pc = "check_duration"
    /\ ffprobe_result.returncode # 0
    /\ fallback_result.called
    /\ fallback_result.value = TimeValue(<<0, 2, 3, 5>>)
    /\ duration = TimeValue(<<0, 2, 3, 5>>)

\* C10: a segment is counted and its segment-completed event emitted
\* exactly when ffmpeg exited 0 and the output file exists afterwards
C10_SuccessNeedsExitAndFile ==
    [][(pc = "encoding" /\ pc' # pc)
        => LET exit0   == ~encode_result'.raised /\ encode_result'.returncode = 0
               exists  == output_filename(i + 1) \in files'
               counted == successful_segments' = successful_segments + 1
               emitted == \E k \in (Len(events) + 1)..Len(events') :
                              events'[k] = segment_completed(i + 1)
           IN  /\ counted <=> (exit0 /\ exists)
               /\ emitted <=> (exit0 /\ exists)
               /\ ~counted => successful_segments' = successful_segments
               /\ \A k \in (Len(events) + 1)..Len(events') :
                     events'[k].sig = "segment_completed"
                        => events'[k] = segment_completed(i + 1)]_vars

\* C10 witness: segment 1 succeeded, segment 2 exited 0 without its file
C10_Witness ==
    /\ pc = "loop"
    /\ i = 2
    /\ successful_segments = 1
    /\ ~encode_result.raised
    /\ encode_result.returncode = 0
    /\ output_filename(2) \notin files
    /\ Len(CompletedEvents) = 1

(* ------------------------ ordering of windows -------------------------- *)

\* positions in the trace of the 'Creating segment n/total' announcements
CreatingAt ==
    {k \in 1..Len(events) :
        events[k].sig = "status_updated" /\ events[k].text = "Creating segment"}

\* the segment announced last before position k of the trace, 0 if none
AnnouncedBefore(k) ==
    LET before == {j \in CreatingAt : j < k}
    IN  IF before = {} THEN 0
        ELSE events[CHOOSE j \in before : \A h \in before : j >= h].num

\* the events emitted after the announcement at position a and before the
\* next announcement
EventsOfWindowAt(a) ==
    LET later == {j \in CreatingAt : j > a}
        upto  == IF later = {} THEN Len(events)
                 ELSE (CHOOSE j \in later : \A h \in later : j <= h) - 1
    IN  SubSeq(events, a + 1, upto)

\* C11: windows are attempted one at a time in ascending order; the
\* segment-completed event (on success) and the progress event of a window
\* are emitted after its encode returned and before the next encode starts
C11_OneWindowAtATime ==
    /\ [](/\ \A a, b \in 1..Len(commands) :
                a < b => WindowStart(commands[a]) < WindowStart(commands[b])
          /\ \A a, b \in CreatingAt : a < b => events[a].num < events[b].num
          /\ Cardinality(CreatingAt) = Len(commands)
          /\ \A k \in 1..Len(events) :
                /\ events[k].sig = "segment_completed"
                      => events[k].num = AnnouncedBefore(k)
                /\ events[k].sig = "progress_updated" => AnnouncedBefore(k) # 0
          /\ \A a \in CreatingAt :
                LET own      == EventsOfWindowAt(a)
                    inflight == pc = "encoding" /\ events[a].num = i + 1
                IN  /\ Len(SelectSeq(own, LAMBDA e : e.sig = "progress_updated"))
                          = IF inflight THEN 0 ELSE 1
                    /\ Len(SelectSeq(own, LAMBDA e : e.sig = "segment_completed"))
                          <= IF inflight THEN 0 ELSE 1)
    /\ [][(pc' = "encoding" /\ pc # "encoding")
            => /\ Len(commands') = Len(commands) + 1
               /\ Len(ProgressEvents) = Len(commands)
               /\ Len(ProgressEvents') = Len(ProgressEvents)
               /\ Len(SelectSeq(events', LAMBDA e : e.sig = "segment_completed"))
                     = Len(CompletedEvents)]_vars
    /\ [][(pc = "encoding" /\ pc' # pc)
            => /\ commands' = commands
               /\ Len(ProgressEvents') = Len(commands)
               /\ (successful_segments' = successful_segments + 1)
                     <=> \E k \in (Len(events) + 1)..Len(events') :
                            events'[k] = segment_completed(i + 1)]_vars

\* C11 witness: three windows attempted in turn, the second one failed
C11_Witness ==
    /\ pc = "done"
    /\ Len(commands) = 3
    /\ [k \in 1..Len(CompletedEvents) |-> CompletedEvents[k].num] = <<1, 3>>
    /\ Len(ProgressEvents) = 3

(* --------------------- cancellation and encodes ------------------------ *)

\* C12: a cancel request never interrupts an encode: stop() leaves the
\* encode in flight untouched, that encode returns and its outcome is
\* counted and emitted, the flag once set stays set, and with the flag set
\* no further encode is dispatched, so at most the one in flight finishes
\* after the flag was set
C12_CancelNeverInterruptsEncode ==
    /\ [][(pc = "encoding" /\ ~is_running')
            => \/ /\ pc' = "encoding"
                  /\ UNCHANGED <<commands, events, files, i, successful_segments>>
               \/ /\ pc' = "loop"
                  /\ i' = i + 1
                  /\ commands' = commands
                  /\ Len(events') > Len(events)
                  /\ Last(events') = progress_updated(Progress(i + 1, total_segments))
                  /\ (successful_segments' = successful_segments + 1)
                        <=> \E k \in (Len(events) + 1)..Len(events') :
                               events'[k] = segment_completed(i + 1)
                  /\ successful_segments' \in {successful_segments,
                                               successful_segments + 1}]_vars
    /\ [][~is_running => ~is_running']_vars
    /\ [][(~is_running /\ pc # "encoding")
            => (pc' # "encoding" /\ commands' = commands)]_vars
    /\ ((pc = "encoding" /\ ~is_running) ~> (pc = "loop"))

\* C12 witness: the flag was set while the encode of the second window was
\* in flight
C12_Witness ==
    /\ pc = "encoding"
    /\ ~is_running
    /\ i = 1
    /\ Len(commands) = 2
    /\ Len(ProgressEvents) = 1

(* ------------------------- the window plan ----------------------------- *)

\* the one window of an uncancelled run spans the whole source
OneWindowOverWholeSource ==
    /\ Len(commands) = 1
    /\ WindowStart(commands[1]) = 0
    /\ WindowEnd(commands[1]) = duration
    /\ AttemptedNums = {1}

\* C14 as stated: a source of positive duration no longer than the segment
\* length gets exactly one window, from 0 to the duration
C14_SingleWindowForShortSource ==
    (EndedUncancelled /\ duration > 0 /\ segment_duration * Scale >= duration)
        => OneWindowOverWholeSource

\* C14 amended: a source longer than 1 second and no longer than the
\* segment length gets exactly one window, from 0 to the duration
C14_SingleWindowAboveOneSecond ==
    (EndedUncancelled /\ duration > 1 * Scale /\ segment_duration * Scale >= duration)
        => OneWindowOverWholeSource

\* C14 witness: a 2.5 second source cut with 3 second segments
C14_Witness ==
    /\ EndedUncancelled
    /\ segment_duration = 3
    /\ duration = (5 * Scale) \div 2
    /\ Len(commands) = 1
    /\ commands[1].t = duration

\* the windows (number, start, end) an uncancelled run attempted
AttemptedWindows ==
    {<<CHOOSE n \in AttemptedNums : output_filename(n) = commands[k].output_path,
       WindowStart(commands[k]), WindowEnd(commands[k])>> : k \in 1..Len(commands)}

\* windows (n, start, end) of ceil(D/L) windows of L seconds over D that
\* are longer than 1 second; D in 1/Scale seconds, L in seconds
WindowsLongerThanOneSecond(D, L) ==
    {w \in {<<n, (n - 1) * L * Scale, Min((n - 1) * L * Scale + L * Scale, D)>> :
               n \in 1..Ceil(D, L * Scale)} :
        w[3] - w[2] > 1 * Scale}

ThreeWindowsOf125Seconds ==
    /\ EndedUncancelled
    /\ duration = 125 * Scale
    /\ segment_duration = 60
    /\ Len(commands) = 3

(* ----------------------------- progress -------------------------------- *)

\* number of windows of the plan once the short ones are dropped
planned_count == Cardinality(WindowsLongerThanOneSecond(duration, segment_duration))

\* C16: the k-th progress event of a run carries floor(k / planned_count * 100),
\* so the values never decrease, stay within 0..100, and the event of the
\* last planned window carries 100
C16_ProgressOverPlannedCount ==
    /\ \A k \in 1..Len(ProgressEvents) :
          /\ ProgressEvents[k].num = (k * 100) \div planned_count
          /\ ProgressEvents[k].num \in 0..100
          /\ k > 1 => ProgressEvents[k - 1].num <= ProgressEvents[k].num
    /\ (EndedUncancelled /\ ProgressEvents # <<>>) => Last(ProgressEvents).num = 100

\* what holds of the code: the k-th progress event carries the window's
\* number over the count of all ceil(D/L) windows, dropped ones included
ProgressOverTotalSegments ==
    /\ \A k \in 1..Len(ProgressEvents) :
          /\ ProgressEvents[k].num \in 0..100
          /\ k > 1 => ProgressEvents[k - 1].num <= ProgressEvents[k].num
          /\ \E n \in AttemptedNums :
                ProgressEvents[k].num = (n * 100) \div total_segments
    /\ (total_segments = planned_count) => C16_ProgressOverPlannedCount

(* --------------------------- fatal errors ------------------------------ *)

\* C17: when the output directory cannot be created the run ends at once
\* with finished(success = false), and no encode is invoked in that run,
\* neither before nor after the failure
C17_NoEncodeWithoutOutputDir ==
    /\ [](pc = "makedirs" => commands = <<>>)
    /\ [][(pc = "makedirs" /\ pc' = "done")
            => /\ Last(events').sig = "finished"
               /\ Last(events').ok = FALSE
               /\ Len(SelectSeq(events', LAMBDA e : e.sig = "finished")) = 1
               /\ commands' = <<>>]_vars
    /\ [][pc = "done" => (pc' = "done" /\ commands' = commands)]_vars
    /\ [][(pc = "makedirs" /\ pc' # pc) => pc' \in {"loop", "done"}]_vars

\* C17 witness: the run ended on the error of os.makedirs
C17_Witness ==
    /\ pc = "done"
    /\ Last(events) = finished(FALSE, "Error", 0)
    /\ total_segments > 1
    /\ commands = <<>>
    /\ files = {}

\* the diagnostic output gives no usable duration: the pass raised, no
\* line holds 'Duration:', or the token of the first such line is no time
NoUsableDurationLine(result) ==
    \/ result.raised
    \/ \A k \in 1..Len(result.stderr) : result.stderr[k] = NoiseLine
    \/ \E k \in 1..Len(result.stderr) :
          /\ \E tok \in MalformedTokens : result.stderr[k] = DurationLine(tok)
          /\ \A j \in 1..(k - 1) : result.stderr[j] = NoiseLine

\* C18: when the probe yields no usable duration (no duration line, a
\* token that does not parse, or a resolved duration <= 0) the run goes
\* straight to the duration-unavailable failure: nothing is planned or
\* encoded, no progress and no segment-completed event is emitted
C18_NoDurationFailsAtOnce ==
    /\ [][(pc = "ffmpeg_probe_done" /\ pc' # pc /\ NoUsableDurationLine(fallback_process))
            => (pc' = "check_duration" /\ duration' = 0)]_vars
    /\ [][(pc = "check_duration" /\ duration <= 0 /\ pc' # pc)
            => /\ pc' = "done"
               /\ Last(events') = DurationUnavailableMsg
               /\ Len(SelectSeq(events', LAMBDA e : e.sig = "finished")) = 1]_vars
    /\ []((pc = "done" /\ duration <= 0)
            => /\ Last(events) = DurationUnavailableMsg
               /\ total_segments = 0
               /\ commands = <<>>
               /\ files = {}
               /\ ProgressEvents = <<>>
               /\ CompletedEvents = <<>>)
    /\ [](pc \in {"ready", "ffprobe", "ffmpeg_probe", "ffmpeg_probe_done", "check_duration"}
            => (commands = <<>> /\ ProgressEvents = <<>> /\ CompletedEvents = <<>>))

\* C18 witness: ffprobe exited non-zero, the fallback resolved nothing,
\* and the run ended with the duration-unavailable failure
C18_Witness ==
    /\ pc = "done"
    /\ ffprobe_result.called
    /\ ffprobe_result.returncode # 0
    /\ fallback_result.called
    /\ duration = 0
    /\ Last(events) = DurationUnavailableMsg

(* ------------------------ workers of the window ------------------------ *)

\* the workers executing run()
Running == {w \in 1..Len(threads) : threads[w].state = "running"}

\* C13: whatever the user does, at most one worker executes a run at any
\* time, so no two running workers write to the same output directory
C13_AtMostOneWorkerRuns ==
    /\ Cardinality(Running) <= 1
    /\ \A v, w \in Running : threads[v].output_dir = threads[w].output_dir => v = w

(* --------------------------- round trip -------------------------------- *)

\* C20: a whole number of seconds s >= 0, formatted by seconds_to_time as
\* HH:MM:SS and optionally followed by a zero fraction, is parsed back by
\* time_to_seconds to exactly s
C20_TimeRoundTrip ==
    /\ conversion.pc \in {"formatted", "fraction", "parsed"}
          => LET t == conversion.time_str
             IN  /\ Len(t) >= 8
                 /\ Cardinality({k \in 1..Len(t) : t[k] = ":"}) = 2
    /\ conversion.pc = "parsed" => conversion.result = conversion.seconds * Scale

\* C20 witness: 1 h 2 min 5 s went through '01:02:05.000' and came back
C20_Witness ==
    /\ conversion.pc = "parsed"
    /\ conversion.seconds = 3725
    /\ conversion.time_str = <<"0", "1", ":", "0", "2", ":", "0", "5", ".", "0", "0", "0">>
    /\ conversion.result = 3725 * Scale

(* ------------------------- running twice ------------------------------- *)

\* the output paths of the encoder invocations of the current run
OutputPaths == [k \in 1..Len(commands) |-> commands[k].output_path]

\* '<name>_part_00n.mp4' for a one-digit n, the name left out
PartName(n) ==
    <<"_", "p", "a", "r", "t", "_", "0", "0", DigitChar(n), ".", "m", "p", "4">>

\* C19: a second run of the same job (same source, settings and resolved
\* duration) names its outputs as the first did, window by window, and
\* asks ffmpeg to overwrite; it adds no file under another name, and when
\* its encodes wrote and succeeded as those of the first run did, the
\* directory holds exactly the files it held after the first run
C19_RerunOverwritesSameFiles ==
    (first_run.ended /\ duration = first_run.duration)
        => /\ \A k \in 1..Len(commands) :
                 /\ commands[k].overwrite
                 /\ k <= Len(first_run.paths) => OutputPaths[k] = first_run.paths[k]
                 /\ \E n \in 1..total_segments : OutputPaths[k] = PartName(n)
           /\ (pc = "done" /\ i = first_run.i) => OutputPaths = first_run.paths
           /\ first_run.files \subseteq files
           /\ files = first_run.files \cup writes
           /\ (/\ pc = "done"
               /\ writes = first_run.writes
               /\ CompletedEvents = first_run.completed) => files = first_run.files

\* C19 witness: both runs wrote segments 1 and 2, which are the two files
\* of the directory
C19_Witness ==
    /\ first_run.ended
    /\ pc = "done"
    /\ Len(commands) = 2
    /\ OutputPaths = first_run.paths
    /\ Cardinality(writes) = 2
    /\ writes = first_run.writes
    /\ CompletedEvents = first_run.completed
    /\ files = {PartName(1), PartName(2)}

(* --------------------------- the outcome ------------------------------- *)

\* C21: a run that is not cancelled and in which a segment succeeded
\* reports success, failed segments or not, and the count of its message
\* is the number of segment-completed events; failure is reported only
\* when no segment succeeded, when the probe gave no duration, or when
\* the directory could not be set up
C21_PartialSuccessIsSuccess ==
    /\ [][(pc = "after_loop" /\ pc' = "done" /\ is_running /\ successful_segments > 0)
            => /\ Last(events').sig = "finished"
               /\ Last(events').ok
               /\ Last(events').num = Len(CompletedEvents)
               /\ Last(events').num = successful_segments]_vars
    /\ []((pc = "done" /\ ~Last(events).ok /\ Last(events) # Cancelled)
            => \/ (Last(events) = NoSegmentsCreated /\ CompletedEvents = <<>>
                     /\ successful_segments = 0)
               \/ (Last(events) = DurationUnavailableMsg /\ duration <= 0)
               \/ (Last(events) = finished(FALSE, "Error", 0) /\ commands = <<>>))
    /\ []((pc = "done" /\ Last(events).ok)
            => /\ Last(events).num = Len(CompletedEvents)
               /\ Last(events).num > 0)

\* C21 witness: three windows, one of them failed, success reported with
\* a count of 2
C21_Witness ==
    /\ pc = "done"
    /\ Len(commands) = 3
    /\ Len(CompletedEvents) = 2
    /\ Last(events) = finished(TRUE, "Successfully split video into segments", 2)

\* the encode in flight ends without success: it raised (timeout or
\* error), exited non-zero, or left no output file
EncodeFailed(result, exists) ==
    result.raised \/ result.returncode # 0 \/ ~exists

\* C22: each window is encoded at most once per run: an encode that
\* times out or fails is logged as the failure of its segment, is not
\* counted, is not run again, and the loop moves to the next window
C22_NoRetry ==
    /\ [](\A a, b \in 1..Len(commands) :
              a # b => /\ commands[a].output_path # commands[b].output_path
                       /\ WindowStart(commands[a]) # WindowStart(commands[b]))
    /\ [](Len(commands) <= total_segments)
    /\ [][(pc = "encoding" /\ pc' # pc
             /\ EncodeFailed(encode_result', output_filename(i + 1) \in files'))
            => /\ pc' = "loop"
               /\ i' = i + 1
               /\ commands' = commands
               /\ successful_segments' = successful_segments
               /\ \E k \in (Len(events) + 1)..Len(events') :
                     events'[k] = log_updated("Failed to create segment", i + 1, <<>>)
               /\ encode_result'.timeout
                     => \E k \in (Len(events) + 1)..Len(events') :
                           events'[k].text = "Segment processing timed out"]_vars

\* C22 witness: of three windows the second timed out; each was encoded
\* once and the third after the timeout
C22_Witness ==
    /\ pc = "done"
    /\ Len(commands) = 3
    /\ [k \in 1..3 |-> commands[k].output_path]
          = <<output_filename(1), output_filename(2), output_filename(3)>>
    /\ \E k \in 1..Len(events) :
          /\ events[k].text = "Segment processing timed out"
          /\ AnnouncedBefore(k) = 2
          /\ \E j \in (k + 1)..Len(events) :
                events[j] = status_updated("Creating segment", 3)

(* ------------------------- encoder settings ---------------------------- *)

\* the -crf value the claim gives for a tier
TierParameter(q) ==
    CASE q = "high" -> 18
      [] q = "medium" -> 23
      [] q = "low" -> 28

\* C23: the encoder quality parameter depends on the tier alone: every
\* invocation of every run gets 18 for High, 23 for Medium and 28 for Low,
\* whatever the window and the other settings
C23_QualityByTierAlone ==
    /\ quality \in Qualities
    /\ {quality_map[text] : text \in DOMAIN quality_map} = Qualities
    /\ \A k \in 1..Len(commands) : commands[k].crf = TierParameter(quality)
    /\ TierParameter("high") < TierParameter("medium")
    /\ TierParameter("medium") < TierParameter("low")

\* C23 witness: two windows of a Low run without audio, both with 28
C23_Witness ==
    /\ quality = "low"
    /\ ~keep_audio
    /\ Len(commands) = 2
    /\ commands[1].crf = 28
    /\ commands[2].crf = 28
    /\ commands[1].ss # commands[2].ss

(* ---------------------- the output directory --------------------------- *)

\* C25 as stated: the directory-creation step of a run comes before its
\* duration probe is invoked
C25_DirectoryBeforeProbe ==
    [][(pc = "makedirs" /\ pc' # pc) => ~ffprobe_result.called]_vars

\* C25 amended: the directory-creation step comes after the probe and the
\* planning and before the first encode; a run whose probe gave no
\* duration never reaches it
C25_DirectoryAfterProbe ==
    /\ [][(pc = "makedirs" /\ pc' # pc)
            => /\ ffprobe_result.called
               /\ duration > 0
               /\ total_segments = Ceil(duration, segment_duration * Scale)
               /\ commands = <<>>
               /\ commands' = <<>>]_vars
    /\ [][(pc' = "makedirs" /\ pc # "makedirs")
            => (pc = "check_duration" /\ duration > 0)]_vars
    /\ [][(pc' \in {"loop", "encoding"} /\ pc \notin {"loop", "encoding"})
            => (pc = "makedirs" /\ pc' = "loop")]_vars
    /\ []((pc = "done" /\ duration <= 0) => Last(events) = DurationUnavailableMsg)

\* C25 witness: the directory was made after both probe tiers had run and
\* the plan was logged, no encode yet
C25_Witness ==
    /\ pc = "loop"
    /\ i = 0
    /\ ffprobe_result.called
    /\ fallback_result.called
    /\ total_segments = 3
    /\ commands = <<>>
    /\ Last(events).text = "Total segments to create"

(* ------------------------- segment numbers ----------------------------- *)

\* the number in an output file name '_part_00n.mp4', n a single digit
NumberOf(output_path) == CHOOSE n \in 1..9 : output_path = PartName(n)

\* C26: the segment numbers in the output file names of the attempted
\* windows are contiguous: the k-th invocation of a run writes segment k,
\* so after k attempts the numbers are exactly 1..k, dropped windows or not
C26_ContiguousSegmentNumbers ==
    /\ \A k \in 1..Len(commands) :
          /\ \E n \in 1..9 : commands[k].output_path = PartName(n)
          /\ NumberOf(commands[k].output_path) = k
    /\ AttemptedNums = 1..Len(commands)
    /\ \A k \in 1..Len(CompletedEvents) :
          CompletedEvents[k].num \in 1..Len(commands)

\* C26 witness: the last of three windows was dropped, the two attempted
\* ones are segments 1 and 2
C26_Witness ==
    /\ pc = "done"
    /\ segment_duration = 2
    /\ total_segments = 3
    /\ SkipSegment(2)
    /\ Len(commands) = 2
    /\ AttemptedNums = {1, 2}
    /\ commands[2].output_path = PartName(2)

(* ---------------------- cancellation and outcome ----------------------- *)

\* C28: cancellation decides the outcome: when the flag has been set by
\* the time the worker checks it after the loop, finished carries
\* success = false and the cancelled message, whatever number of segments
\* succeeded; the cancelled outcome is emitted only with the flag set, the
\* flag is cleared by stop() alone, and a run with the flag set whose
\* probe succeeded and which met no exception gets to that check
C28_CancellationTakesPrecedence ==
    /\ [][(pc = "after_loop" /\ pc' = "done" /\ ~is_running)
            => /\ Last(events') = Cancelled
               /\ Len(SelectSeq(events', LAMBDA e : e.sig = "finished")) = 1]_vars
    /\ []((\E k \in 1..Len(events) : events[k] = Cancelled) => ~is_running)
    /\ [][(is_running /\ ~is_running')
            => UNCHANGED <<pc, events, commands, files, i, successful_segments,
                           duration, total_segments>>]_vars
    /\ [][(pc \in {"loop", "encoding"} /\ ~is_running /\ pc' # pc)
            => pc' \in {"loop", "after_loop"}]_vars
    /\ []((pc = "done" /\ Last(events) = Cancelled)
            => (duration > 0 /\ NoErrorReported))

\* C28 witness: both windows of the plan succeeded and the run reports
\* the cancelled outcome
C28_Witness ==
    /\ pc = "done"
    /\ total_segments = 2
    /\ successful_segments = 2
    /\ Len(CompletedEvents) = 2
    /\ Last(events) = Cancelled

(* ----------------------------- counters -------------------------------- *)

\* C29: successes <= attempts <= planned windows in every state of a run;
\* both counts only grow; they change only in steps of the loop, a cancel
\* request changing nothing but the flag; and the success count is the
\* number of segment-completed events emitted so far
C29_CountersInvariant ==
    /\ [](/\ successful_segments <= Len(commands)
          /\ Len(commands) <= Cardinality(PlannedWindows)
          /\ Cardinality(PlannedWindows) <= total_segments
          /\ successful_segments = Len(CompletedEvents)
          /\ pc = "encoding" => successful_segments < Len(commands))
    /\ [][/\ successful_segments' \in {successful_segments, successful_segments + 1}
          /\ Len(commands') \in {Len(commands), Len(commands) + 1}
          /\ (successful_segments' # successful_segments) => pc = "encoding"
          /\ (commands' # commands) => (pc = "loop" /\ pc' = "encoding")
          /\ (is_running' # is_running)
                => UNCHANGED <<config, pc, duration, total_segments, i,
                               successful_segments, events, files, commands,
                               encode_result, writes>>]_vars

\* C29 witness: the second of three planned windows is being encoded
\* after one success, the cancel flag already set
C29_Witness ==
    /\ pc = "encoding"
    /\ ~is_running
    /\ successful_segments = 1
    /\ Len(commands) = 2
    /\ Cardinality(PlannedWindows) = 3


\* C24: a worker that has emitted finished is at rest for good: its events,
\* its encodes, its counters and the files it wrote stay as they are, and
\* the only thing that follows is a new job, which a newly constructed
\* worker executes from the start with its cancel flag raised anew,
\* whatever the flag of the finished worker was
C24_TerminalStatesAreFinal ==
    [][pc = "done" =>
          \/ UNCHANGED <<pc, duration, total_segments, i, successful_segments,
                         events, commands, encode_result, writes, files>>
          \/ /\ ~first_run.ended /\ first_run'.ended
             /\ is_running' /\ pc' = "ready"
             /\ events' = <<>> /\ commands' = <<>>
             /\ i' = 0 /\ successful_segments' = 0 /\ files' = files]_vars

\* C24 witness: the first worker was cancelled and left its loop early, and
\* the second one, over the same source, is encoding with its flag raised
C24_Witness ==
    /\ first_run.ended
    /\ first_run.i < total_segments
    /\ pc = "encoding"
    /\ is_running


(* ----------------------------- the window ------------------------------ *)

\* C27: no worker is started with a segment length below one second: a
\* press of Start with both spin boxes at zero creates no worker and leaves
\* the worker reference and both buttons as they were, and every worker
\* that is created gets minutes * 60 + seconds >= 1 as its segment length
C27_NoWorkerBelowOneSecond ==
    [][/\ (minutes_spin = 0 /\ seconds_spin = 0)
            => /\ Len(threads') = Len(threads)
               /\ worker' \in {worker, 0}
               /\ start_button => start_button'
               /\ stop_button' => stop_button
       /\ Len(threads') > Len(threads)
            => /\ minutes_spin * 60 + seconds_spin >= 1
               /\ UNCHANGED <<minutes_spin, seconds_spin>>
               /\ threads' = Append(threads, threads'[Len(threads')])]_vars

\* C27 witness: both spin boxes are at zero while a video is loaded and the
\* start button is enabled, so that a press of Start is turned down for the
\* segment length alone, and a worker started earlier is still running
C27_Witness ==
    /\ minutes_spin = 0 /\ seconds_spin = 0
    /\ current_video # None
    /\ start_button
    /\ Len(threads) = 1
    /\ threads[1].state = "running"


\* C30: whatever the user does, a worker that executes run() is the one the
\* window's worker reference points to, and the stop button is enabled, so
\* that a press of Stop reaches it
C30_StopReachesRunningWorker ==
    \A w \in Running : worker = w /\ stop_button

====
